---- MODULE Spec2Model ----
(***************************************************************************)
(* Model of src/app.py: the Streamlit image generator's session state, the *)
(* gate in front of the generate button, and generate_images_with_retry,   *)
(* the retry loop around client.images.generate.                           *)
(*                                                                         *)
(* One script run of the page is a sequence of steps: the click builds the *)
(* form and (if generate_ready) enters the retry loop; each answer of the  *)
(* endpoint and each elapsed time.sleep is a step; the caller's success /  *)
(* failure branch ends the run.  The locals of a run (prompt, params,      *)
(* attempt, error_msg, ...) are reset when the run ends.                   *)
(***************************************************************************)
EXTENDS Integers, Sequences, FiniteSets, TLC

VARIABLES
    api_config,          \* st.session_state.api_config (api_key, base_url, validated)
    secrets_key,         \* 'OPENAI_API_KEY' in st.secrets
    api_configured,      \* client is not None, as computed by the latest script run
    model_test_results,  \* st.session_state.model_test_results: model -> available
    selected_model,      \* st.session_state.selected_model
    generation_history,  \* st.session_state.generation_history, newest first
    favorite_images,     \* st.session_state.favorite_images, in the order they were added
    now,                 \* datetime.datetime.now(), counted in generations recorded
    images_shown,        \* the page shows the images of generation_history[0]
    last_test,           \* log: the key, url and verdict of the latest connection test
    pc,                  \* where the current script run stands
    prompt,              \* the text area's value in this run
    generate_ready,      \* the gate computed in this run
    params,              \* generation_params handed to generate_images_with_retry
    attempt,             \* the loop variable of generate_images_with_retry
    error_msg,           \* str(e) of the latest caught exception
    ret,                 \* the (success, result) tuple returned to the caller
    calls,               \* log: the params of every client.images.generate call of this run
    answers,             \* log: how each of these calls ended, "ok" or "error"
    sleeps               \* log: every time.sleep(delay) of this run

vars == <<api_config, secrets_key, api_configured, model_test_results,
          selected_model, generation_history, favorite_images, now, images_shown,
          last_test,
          pc, prompt, generate_ready, params, attempt, error_msg, ret, calls,
          answers, sleeps>>

session_vars == <<api_config, secrets_key, model_test_results, selected_model,
                  generation_history, favorite_images, now, last_test>>

run_vars == <<prompt, generate_ready, params, attempt, error_msg, ret, calls, answers,
              sleeps>>

(***************************************************************************)
(* Bounds of the exploration.                                              *)
(***************************************************************************)
\* error messages carry at most this many of the keywords below
MaxKeywords == 2
\* prompts are made of at most this many runs of equal characters
MaxRuns == 2
\* the jitter random.uniform(0, 1) is sampled in steps of 1/JitterSteps second
JitterSteps == 1
\* generations per session that are explored
MaxGenerations == 2
\* generations recorded in a session that fills its history
MaxInsertions == 52
\* favourites kept in a session that fills its history
MaxHistoryFavorites == 1
\* favourites kept in a session that toggles them
MaxFavorites == 2

(***************************************************************************)
(* Program constants.                                                      *)
(***************************************************************************)
\* mutant: one attempt more than the code allows
max_retries_raised == 3 + 1
max_retries == 3
base_delay == 2
HistoryCap == 50
SliderMin == 1
SliderMax == 4

FLUX_MODELS == {"flux.1-schnell", "flux.1-krea-dev"}
FirstModel == "flux.1-schnell"
size_options == {"1024x1024", "1152x896"}
\* the select box opens at index 0
DefaultSize == "1024x1024"
DefaultBaseUrl == "https://api.navy/v1"
ApiKeys == {"", "sk-1"}

(***************************************************************************)
(* Strings.  A prompt is kept run-length encoded, <<[ch, n], ...>> with    *)
(* adjacent runs of different characters, so that texts longer than 4000   *)
(* characters are values of the model.                                     *)
(***************************************************************************)
Chars == {" ", "a"}
RunLengths == {1, 5000}
Runs == [ch : Chars, n : RunLengths]

RECURSIVE PromptsOfRuns(_)
PromptsOfRuns(k) ==
    IF k = 0 THEN {<<>>}
    ELSE LET shorter == PromptsOfRuns(k - 1)
         IN  shorter \cup
             {Append(p, r) : p \in {q \in shorter : Len(q) = k - 1}, r \in Runs}

Prompts == {p \in PromptsOfRuns(MaxRuns) :
              \A i \in 1..(Len(p) - 1) : p[i].ch # p[i + 1].ch}

RECURSIVE StrLen(_)
StrLen(p) == IF p = <<>> THEN 0 ELSE Head(p).n + StrLen(Tail(p))

IsSpace(c) == c = " "

\* mutant: the prompt is tested without .strip()
Strip_none(p) == p

\* str.strip(): leading and trailing whitespace removed
Strip(p) ==
    LET q == IF p # <<>> /\ IsSpace(Head(p).ch) THEN Tail(p) ELSE p
    IN  IF q # <<>> /\ IsSpace(q[Len(q)].ch) THEN SubSeq(q, 1, Len(q) - 1) ELSE q

\* truth value of a str
Truthy(p) == p # <<>>

(***************************************************************************)
(* Error messages.  A message is the set of keywords it contains as        *)
(* substrings; "Timeout" is the capitalised spelling of "timeout".         *)
(***************************************************************************)
Keywords == {"500", "502", "503", "429", "timeout", "Timeout",
             "401", "403", "404", "400", "content policy", "connection", "dns", "ssl"}

Messages == {m \in SUBSET Keywords : Cardinality(m) <= MaxKeywords}

Unbound == {"<unbound>"}
AllRetriesFailed == {"all retries failed"}

LowerWord(w) == IF w = "Timeout" THEN "timeout" ELSE w

\* str.lower()
Lower(msg) == {LowerWord(w) : w \in msg}

\* kw in msg
Contains(msg, kw) == kw \in msg

(***************************************************************************)
(* init_api_client and the state of a session.                             *)
(***************************************************************************)
NoParams == [model |-> "", prompt |-> <<>>, n |-> 0, size |-> ""]
NoResult == [success |-> FALSE, response |-> 0, error |-> Unbound]
NoTests == [m \in {} |-> TRUE]
NoTest == [api_key |-> "", base_url |-> "", is_valid |-> FALSE]

CleanRun ==
    /\ prompt = <<>>
    /\ generate_ready = FALSE
    /\ params = NoParams
    /\ attempt = 0
    /\ error_msg = Unbound
    /\ ret = NoResult
    /\ calls = <<>>
    /\ answers = <<>>
    /\ sleeps = <<>>

\* mutant: a client is built although no key is configured
init_api_client_nokey(cfg, ctor_ok) == IF ctor_ok THEN "client" ELSE "None"

\* the client init_api_client returns under configuration cfg;
\* ctor_ok: OpenAI(...) did not raise
init_api_client(cfg, ctor_ok) ==
    IF cfg.api_key # "" \/ secrets_key
    THEN IF ctor_ok THEN "client" ELSE "None"
    ELSE "None"

\* api_configured = client is not None
client_is_not_None(cfg, ctor_ok) == init_api_client(cfg, ctor_ok) # "None"

\* init_session_state, then the first script run
Init ==
    /\ api_config = [api_key |-> "", base_url |-> DefaultBaseUrl, validated |-> FALSE]
    /\ secrets_key \in BOOLEAN
    /\ api_configured \in {c \in BOOLEAN : c => secrets_key}
    /\ model_test_results = NoTests
    /\ selected_model = FirstModel
    /\ generation_history = <<>>
    /\ favorite_images = <<>>
    /\ now = 0
    /\ last_test = NoTest
    /\ images_shown = FALSE
    /\ pc = "idle"
    /\ CleanRun

(***************************************************************************)
(* generate_images_with_retry.                                             *)
(***************************************************************************)
\* the classes client.images.generate raises; all derive from Exception
RaisedKinds == {"APIStatusError", "APITimeoutError"}
ExceptionSubclasses == {"Exception", "APIStatusError", "APITimeoutError"}

\* mutant: except APIStatusError as e
except_APIStatusError(kind) == kind = "APIStatusError"

\* except Exception as e
except_Exception(kind) == kind \in ExceptionSubclasses

\* mutant: every error is retried
should_retry_always(msg) == TRUE

\* mutant: "404" joins the retried status codes
should_retry_404(msg) ==
    \/ Contains(msg, "500") \/ Contains(msg, "502") \/ Contains(msg, "503")
    \/ Contains(msg, "404")
    \/ Contains(msg, "429")
    \/ Contains(Lower(msg), "timeout")

\* the chain of substring tests that sets should_retry
should_retry(msg) ==
    \/ Contains(msg, "500") \/ Contains(msg, "502") \/ Contains(msg, "503")
    \/ Contains(msg, "429")
    \/ Contains(Lower(msg), "timeout")

\* mutant: the last attempt is not told apart
retries_left_always(a) == TRUE

\* if attempt < max_retries - 1
retries_left(a) == a < max_retries - 1

\* for attempt in range(max_retries)
in_range(a) == a < max_retries

\* mutant: the delay does not grow with the attempt
backoff_constant(a) == base_delay

\* base_delay * (2 ** attempt), in seconds
backoff(a) == base_delay * (2 ^ a)

\* delay = base_delay * (2 ** attempt) + random.uniform(0, 1); jitter in 1/JitterSteps s
Delay(a, jitter) == [base |-> backoff(a), jitter |-> jitter]

\* a delay in units of 1/JitterSteps second
Ticks(d) == d.base * JitterSteps + d.jitter

Return(success, response, error) ==
    /\ pc' = "returned"
    /\ ret' = [success |-> success, response |-> response, error |-> error]

\* one pass of the for loop up to the call of client.images.generate(**params);
\* past the range the function falls through to its last return
LoopIteration(a, p) ==
    IF in_range(a)
    THEN /\ pc' = "generate"
         /\ attempt' = a
         /\ calls' = Append(calls, p)
         /\ ret' = ret
    ELSE /\ Return(FALSE, 0, AllRetriesFailed)
         /\ UNCHANGED <<attempt, calls>>

\* mutant: the response is taken but the loop goes on
GenerateOk_continue ==
    /\ pc = "generate"
    /\ answers' = Append(answers, "ok")
    /\ LoopIteration(attempt + 1, params)
    /\ UNCHANGED <<error_msg, sleeps>>
    /\ UNCHANGED <<prompt, generate_ready, params, api_configured, images_shown>>
    /\ UNCHANGED session_vars

\* response = client.images.generate(**params); return True, response
GenerateOk ==
    /\ pc = "generate"
    /\ answers' = Append(answers, "ok")
    /\ Return(TRUE, params.n, Unbound)
    /\ UNCHANGED <<attempt, error_msg, calls, sleeps>>
    /\ UNCHANGED <<prompt, generate_ready, params, api_configured, images_shown>>
    /\ UNCHANGED session_vars

\* client.images.generate raises an exception of class kind whose str() is msg
GenerateRaise(kind, msg, jitter) ==
    /\ pc = "generate"
    /\ answers' = Append(answers, "error")
    /\ IF except_Exception(kind)
       THEN /\ error_msg' = msg
            /\ IF retries_left(attempt)
               THEN IF should_retry(msg)
                    THEN /\ sleeps' = Append(sleeps, Delay(attempt, jitter))
                         /\ pc' = "sleep"
                         /\ ret' = ret
                    ELSE /\ Return(FALSE, 0, msg)
                         /\ sleeps' = sleeps
               ELSE /\ Return(FALSE, 0, msg)
                    /\ sleeps' = sleeps
       ELSE /\ pc' = "raised"
            /\ UNCHANGED <<error_msg, sleeps, ret>>
    /\ UNCHANGED <<attempt, calls>>
    /\ UNCHANGED <<prompt, generate_ready, params, api_configured, images_shown>>
    /\ UNCHANGED session_vars

\* mutant: the retry asks for a single image
SleepDone_simplified ==
    /\ pc = "sleep"
    /\ LoopIteration(attempt + 1, [params EXCEPT !.n = 1])
    /\ UNCHANGED <<error_msg, sleeps, answers>>
    /\ UNCHANGED <<prompt, generate_ready, params, api_configured, images_shown>>
    /\ UNCHANGED session_vars

\* time.sleep(delay) has elapsed; continue
SleepDone ==
    /\ pc = "sleep"
    /\ LoopIteration(attempt + 1, params)
    /\ UNCHANGED <<error_msg, sleeps, answers>>
    /\ UNCHANGED <<prompt, generate_ready, params, api_configured, images_shown>>
    /\ UNCHANGED session_vars

(***************************************************************************)
(* The sidebar: show_api_settings.                                         *)
(***************************************************************************)
ClearedConfig == [api_key |-> "", base_url |-> DefaultBaseUrl, validated |-> FALSE]

\* "save settings" with the two text inputs; st.rerun() follows a save
SaveSettings(api_key_input, base_url_input, ctor_ok) ==
    /\ pc = "idle"
    /\ LET current_key == api_config.api_key
           final_api_key == IF api_key_input # "" THEN api_key_input ELSE current_key
           saved == [api_key |-> final_api_key, base_url |-> base_url_input,
                     validated |-> FALSE]
       IN  IF (api_key_input = "" /\ current_key = "") \/ base_url_input = ""
           THEN /\ UNCHANGED <<api_config, model_test_results>>
                /\ api_configured' = client_is_not_None(api_config, ctor_ok)
           ELSE /\ api_config' = saved
                /\ model_test_results' = NoTests
                /\ api_configured' = client_is_not_None(saved, ctor_ok)
    /\ images_shown' = FALSE
    /\ UNCHANGED <<secrets_key, selected_model, generation_history, favorite_images, now, last_test, pc>>
    /\ UNCHANGED run_vars

\* "clear settings"; st.rerun() follows
ClearSettings(ctor_ok) ==
    /\ pc = "idle"
    /\ api_config' = ClearedConfig
    /\ model_test_results' = NoTests
    /\ api_configured' = client_is_not_None(ClearedConfig, ctor_ok)
    /\ images_shown' = FALSE
    /\ UNCHANGED <<secrets_key, selected_model, generation_history, favorite_images, now, last_test, pc>>
    /\ UNCHANGED run_vars

\* "test connection" with the two text inputs: validate_api_key(test_api_key,
\* base_url_input) answers is_valid; nothing but the flag is stored, and no rerun
\* follows
TestConnection(api_key_input, base_url_input, is_valid, ctor_ok) ==
    /\ pc = "idle"
    /\ images_shown' = FALSE
    /\ api_configured' = client_is_not_None(api_config, ctor_ok)
    /\ LET current_key == api_config.api_key
           test_api_key == IF api_key_input # "" THEN api_key_input ELSE current_key
       IN  IF test_api_key = "" \/ base_url_input = ""
           THEN UNCHANGED <<api_config, last_test>>
           ELSE /\ api_config' = [api_config EXCEPT !.validated = is_valid]
                /\ last_test' = [api_key |-> test_api_key, base_url |-> base_url_input,
                                 is_valid |-> is_valid]
    /\ UNCHANGED <<secrets_key, model_test_results, selected_model, generation_history,
                   favorite_images, now, pc>>
    /\ UNCHANGED run_vars

(***************************************************************************)
(* Tab 1: model choice, model test, the generate button.                   *)
(***************************************************************************)
\* a manual model button; the tab is drawn only when api_configured
SelectModel(m, ctor_ok) ==
    /\ pc = "idle"
    /\ api_configured' = client_is_not_None(api_config, ctor_ok)
    /\ selected_model' = IF api_configured' THEN m ELSE selected_model
    /\ images_shown' = FALSE
    /\ UNCHANGED <<api_config, secrets_key, model_test_results, generation_history,
                   favorite_images, now, last_test, pc>>
    /\ UNCHANGED run_vars

\* "test current model": test_model_availability answers available or not;
\* st.rerun() follows and builds the client again
TestCurrentModel(available, ctor_ok, rerun_ok) ==
    /\ pc = "idle"
    /\ IF client_is_not_None(api_config, ctor_ok)
       THEN /\ model_test_results' = (selected_model :> available) @@ model_test_results
            /\ api_configured' = client_is_not_None(api_config, rerun_ok)
       ELSE /\ model_test_results' = model_test_results
            /\ api_configured' = FALSE
    /\ images_shown' = FALSE
    /\ UNCHANGED <<api_config, secrets_key, selected_model, generation_history,
                   favorite_images, now, last_test, pc>>
    /\ UNCHANGED run_vars

(***************************************************************************)
(* Tab 2, show_model_status_dashboard, and the sidebar's reset button.     *)
(***************************************************************************)
\* "test all models": batch_test_models answers results, one entry per model; the
\* dashboard is drawn only when api_configured and tests only with a key of api_config
TestAllModels(results, ctor_ok, rerun_ok) ==
    /\ pc = "idle"
    /\ images_shown' = FALSE
    /\ IF client_is_not_None(api_config, ctor_ok) /\ api_config.api_key # ""
       THEN /\ model_test_results' = results
            /\ api_configured' = client_is_not_None(api_config, rerun_ok)
       ELSE /\ model_test_results' = model_test_results
            /\ api_configured' = client_is_not_None(api_config, ctor_ok)
    /\ UNCHANGED <<api_config, secrets_key, selected_model, generation_history,
                   favorite_images, now, last_test, pc>>
    /\ UNCHANGED run_vars

\* "test this model" in the expander of a model that has a test result
TestThisModel(model_name, available, ctor_ok, rerun_ok) ==
    /\ pc = "idle"
    /\ images_shown' = FALSE
    /\ IF /\ client_is_not_None(api_config, ctor_ok)
          /\ model_name \in DOMAIN model_test_results
          /\ api_config.api_key # ""
       THEN /\ model_test_results' = [model_test_results EXCEPT ![model_name] = available]
            /\ api_configured' = client_is_not_None(api_config, rerun_ok)
       ELSE /\ model_test_results' = model_test_results
            /\ api_configured' = client_is_not_None(api_config, ctor_ok)
    /\ UNCHANGED <<api_config, secrets_key, selected_model, generation_history,
                   favorite_images, now, last_test, pc>>
    /\ UNCHANGED run_vars

\* "clear cache"; st.rerun() follows
ClearCache(ctor_ok, rerun_ok) ==
    /\ pc = "idle"
    /\ images_shown' = FALSE
    /\ IF client_is_not_None(api_config, ctor_ok)
       THEN /\ model_test_results' = NoTests
            /\ api_configured' = client_is_not_None(api_config, rerun_ok)
       ELSE /\ model_test_results' = model_test_results
            /\ api_configured' = FALSE
    /\ UNCHANGED <<api_config, secrets_key, selected_model, generation_history,
                   favorite_images, now, last_test, pc>>
    /\ UNCHANGED run_vars

\* "reset all settings" in the sidebar; st.rerun() follows
ResetAllSettings(ctor_ok) ==
    /\ pc = "idle"
    /\ images_shown' = FALSE
    /\ api_config' = ClearedConfig
    /\ model_test_results' = NoTests
    /\ api_configured' = client_is_not_None(ClearedConfig, ctor_ok)
    /\ UNCHANGED <<secrets_key, selected_model, generation_history, favorite_images,
                   now, last_test, pc>>
    /\ UNCHANGED run_vars

\* mutant: the gate does not look at the test results
GenerateReady_ignores_tests(p, configured, final_selected_model) ==
    /\ Truthy(Strip(p))
    /\ configured

\* generate_ready = prompt.strip() and api_configured and (model untested or available)
GenerateReady(p, configured, final_selected_model) ==
    /\ Truthy(Strip(p))
    /\ configured
    /\ \/ final_selected_model \notin DOMAIN model_test_results
       \/ model_test_results[final_selected_model]

\* generation_params
GenerationParams(p, num_images, selected_size) ==
    [model |-> selected_model, prompt |-> p, n |-> num_images, size |-> selected_size]

\* a script run in which the generate button is pressed with the form (p, num_images,
\* selected_size); without a client the tab draws neither the form nor the button
GenerateClick(p, num_images, selected_size, ctor_ok) ==
    /\ pc = "idle"
    /\ images_shown' = FALSE
    /\ api_configured' = client_is_not_None(api_config, ctor_ok)
    /\ IF ~api_configured'
       THEN /\ pc' = "skipped"
            /\ UNCHANGED <<prompt, generate_ready, params, attempt, calls, ret>>
       ELSE /\ prompt' = p
            /\ generate_ready' = GenerateReady(p, api_configured', selected_model)
            /\ IF generate_ready'
               THEN /\ params' = GenerationParams(p, num_images, selected_size)
                    /\ LoopIteration(0, params')
               ELSE /\ pc' = "skipped"
                    /\ UNCHANGED <<params, attempt, calls, ret>>
    /\ UNCHANGED <<error_msg, sleeps, answers>>
    /\ UNCHANGED session_vars

\* mutant: the list is cut to its last HistoryCap items
add_to_history_keep_last(history, timestamp, model, images) ==
    LET history_item == [timestamp |-> timestamp, model |-> model, images |-> images,
                         id |-> Len(history)]
        inserted == <<history_item>> \o history
    IN  IF Len(inserted) > HistoryCap
        THEN SubSeq(inserted, Len(inserted) - HistoryCap + 1, Len(inserted))
        ELSE inserted

\* add_to_history: the new item first, the list cut to its first HistoryCap items;
\* images is the number of urls of the response
add_to_history(history, timestamp, model, images) ==
    LET history_item == [timestamp |-> timestamp, model |-> model, images |-> images,
                         id |-> Len(history)]
        inserted == <<history_item>> \o history
    IN  IF Len(inserted) > HistoryCap THEN SubSeq(inserted, 1, HistoryCap) ELSE inserted

\* mutant: the failure branch leaves the test results alone
mark_unavailable_never(results, model) == results

\* the failure branch: a tested model is marked unavailable
mark_unavailable(results, model) ==
    IF model \in DOMAIN results THEN [results EXCEPT ![model] = FALSE] ELSE results

ResetRun ==
    /\ prompt' = <<>>
    /\ generate_ready' = FALSE
    /\ params' = NoParams
    /\ attempt' = 0
    /\ error_msg' = Unbound
    /\ ret' = NoResult
    /\ calls' = <<>>
    /\ answers' = <<>>
    /\ sleeps' = <<>>

\* mutant: a failed generation is recorded in the history as well
HandleResult_records_failure ==
    /\ pc = "returned"
    /\ generation_history' =
          add_to_history(generation_history, now, params.model, ret.response)
    /\ now' = now + 1
    /\ images_shown' = ret.success
    /\ model_test_results' =
          IF ret.success THEN model_test_results
          ELSE mark_unavailable(model_test_results, params.model)
    /\ pc' = "idle"
    /\ ResetRun
    /\ UNCHANGED <<api_config, secrets_key, selected_model, api_configured,
                   favorite_images, last_test>>

\* success, result = generate_images_with_retry(...) has returned: the caller's
\* success branch (record the generation, draw its images) or failure branch,
\* then the script run ends
HandleResult ==
    /\ pc = "returned"
    /\ IF ret.success
       THEN /\ generation_history' =
                 add_to_history(generation_history, now, params.model, ret.response)
            /\ now' = now + 1
            /\ images_shown' = TRUE
            /\ model_test_results' = model_test_results
       ELSE /\ model_test_results' = mark_unavailable(model_test_results, params.model)
            /\ images_shown' = FALSE
            /\ UNCHANGED <<generation_history, now>>
    /\ pc' = "idle"
    /\ ResetRun
    /\ UNCHANGED <<api_config, secrets_key, selected_model, api_configured,
                   favorite_images, last_test>>

\* image_id = f"{len(st.session_state.generation_history)-1}_{i}": two decimal
\* numbers joined by "_", kept as the pair of numbers
image_id(history, i) == [generation |-> Len(history) - 1, index |-> i]

\* any(fav['id'] == image_id for fav in favorite_images)
is_favorite(favorites, id) == \E k \in 1..Len(favorites) : favorites[k].id = id

\* favorite_item; image_url is the i-th url of the generation recorded at
\* history_item.timestamp
favorite_item(id, i, history_item) ==
    [id |-> id,
     image_url |-> [timestamp |-> history_item.timestamp, index |-> i],
     history_item |-> history_item]

\* mutant: the image is appended without looking at is_favorite
toggle_favorite_append(favorites, id, i, history_item) ==
    Append(favorites, favorite_item(id, i, history_item))

\* the body of the favourite button: remove every favourite with this id, or
\* append a new one
toggle_favorite(favorites, id, i, history_item) ==
    IF is_favorite(favorites, id)
    THEN SelectSeq(favorites, LAMBDA fav : fav.id # id)
    ELSE Append(favorites, favorite_item(id, i, history_item))

\* the images display_image_with_actions has drawn: those of the newest generation
ShownImages ==
    IF images_shown THEN 0..(generation_history[1].images - 1) ELSE {}

\* the favourite button of image i of the generation on the page
FavoriteClick(i) ==
    /\ pc = "idle"
    /\ i \in ShownImages
    /\ favorite_images' = toggle_favorite(favorite_images, image_id(generation_history, i),
                                          i, generation_history[1])
    /\ UNCHANGED <<api_config, secrets_key, model_test_results, selected_model,
                   generation_history, now, last_test>>
    /\ UNCHANGED <<api_configured, images_shown, pc>>
    /\ UNCHANGED run_vars

\* a script run that did not dispatch (or was ended by an uncaught exception) ends
EndRun ==
    /\ pc \in {"skipped", "raised"}
    /\ pc' = "idle"
    /\ ResetRun
    /\ UNCHANGED <<api_configured, images_shown>>
    /\ UNCHANGED session_vars

(***************************************************************************)
(* Specifications.                                                         *)
(***************************************************************************)
\* the endpoint's failures as seen by a whole session
SessionMessages == {{"503"}, {"401"}}

Next ==
    \/ \E k \in ApiKeys, url \in {DefaultBaseUrl, ""}, ok \in BOOLEAN :
          SaveSettings(k, url, ok)
    \/ \E ok \in BOOLEAN : ClearSettings(ok)
    \/ \E m \in FLUX_MODELS, ok \in BOOLEAN : SelectModel(m, ok)
    \/ \E a \in BOOLEAN, ok \in BOOLEAN, rok \in BOOLEAN : TestCurrentModel(a, ok, rok)
    \/ \E results \in [FLUX_MODELS -> BOOLEAN], ok \in BOOLEAN, rok \in BOOLEAN :
          TestAllModels(results, ok, rok)
    \/ \E m \in FLUX_MODELS, a \in BOOLEAN, ok \in BOOLEAN, rok \in BOOLEAN :
          TestThisModel(m, a, ok, rok)
    \/ \E ok \in BOOLEAN, rok \in BOOLEAN : ClearCache(ok, rok)
    \/ \E ok \in BOOLEAN : ResetAllSettings(ok)
    \/ /\ Len(generation_history) < MaxGenerations
       /\ \E p \in Prompts, n \in {SliderMin, SliderMax}, ok \in BOOLEAN :
             GenerateClick(p, n, DefaultSize, ok)
    \/ GenerateOk
    \/ \E msg \in SessionMessages : GenerateRaise("APIStatusError", msg, 0)
    \/ SleepDone
    \/ HandleResult
    \/ EndRun

Spec == Init /\ [][Next]_vars

(***************************************************************************)
(* The dispatcher alone: a configured session that generates with a plain  *)
(* prompt, against an endpoint that may fail with any message.  The jitter *)
(* of the delay has no part in the loop's control flow; its values are     *)
(* explored by SpecProviderFault.                                          *)
(***************************************************************************)
PlainPrompt == <<[ch |-> "a", n |-> 1]>>

InitDispatch ==
    /\ api_config = [api_key |-> "sk-1", base_url |-> DefaultBaseUrl, validated |-> FALSE]
    /\ secrets_key = FALSE
    /\ api_configured = TRUE
    /\ model_test_results = NoTests
    /\ selected_model \in FLUX_MODELS
    /\ generation_history = <<>>
    /\ favorite_images = <<>>
    /\ now = 0
    /\ last_test = NoTest
    /\ images_shown = FALSE
    /\ pc = "idle"
    /\ CleanRun

\* the first generation of the session
DispatchClick ==
    /\ generation_history = <<>>
    /\ \E n \in {SliderMin, SliderMax}, size \in size_options, ok \in BOOLEAN :
          GenerateClick(PlainPrompt, n, size, ok)

NextDispatch ==
    \/ DispatchClick
    \/ GenerateOk
    \/ \E kind \in RaisedKinds, msg \in Messages : GenerateRaise(kind, msg, 0)
    \/ SleepDone
    \/ HandleResult
    \/ EndRun

SpecDispatch == InitDispatch /\ [][NextDispatch]_vars

(***************************************************************************)
(* The dispatcher against an endpoint that answers every call with a       *)
(* provider fault: a message containing "500".                             *)
(***************************************************************************)
ProviderFaults == {m \in Messages : Contains(m, "500")}

NextProviderFault ==
    \/ DispatchClick
    \/ \E kind \in RaisedKinds, msg \in ProviderFaults, jitter \in 0..JitterSteps :
          GenerateRaise(kind, msg, jitter)
    \/ SleepDone
    \/ HandleResult
    \/ EndRun

SpecProviderFault == InitDispatch /\ [][NextProviderFault]_vars

(***************************************************************************)
(* A long session: one generation after the other with the same form,      *)
(* until the history has been cut to HistoryCap items more than once; the  *)
(* image on the page may be made a favourite.                              *)
(***************************************************************************)
InitHistory ==
    /\ InitDispatch
    /\ selected_model = FirstModel

HistoryClick ==
    /\ now < MaxInsertions
    /\ GenerateClick(PlainPrompt, SliderMin, DefaultSize, TRUE)

HistoryFavorite ==
    \E i \in ShownImages :
       /\ \/ is_favorite(favorite_images, image_id(generation_history, i))
          \/ Len(favorite_images) < MaxHistoryFavorites
       /\ FavoriteClick(i)

NextHistory ==
    \/ HistoryClick
    \/ GenerateOk
    \/ GenerateRaise("APIStatusError", {"401"}, 0)
    \/ HandleResult
    \/ HistoryFavorite

SpecHistory == InitHistory /\ [][NextHistory]_vars

(***************************************************************************)
(* A session that generates one or several images at a time and toggles    *)
(* the favourite buttons of the images on the page.                        *)
(***************************************************************************)
FavoritesClick ==
    /\ Len(generation_history) < MaxGenerations
    /\ \E n \in {SliderMin, SliderMax} : GenerateClick(PlainPrompt, n, DefaultSize, TRUE)

FavoritesToggle ==
    \E i \in ShownImages :
       /\ \/ is_favorite(favorite_images, image_id(generation_history, i))
          \/ Len(favorite_images) < MaxFavorites
       /\ FavoriteClick(i)

NextFavorites ==
    \/ FavoritesClick
    \/ GenerateOk
    \/ GenerateRaise("APIStatusError", {"401"}, 0)
    \/ HandleResult
    \/ FavoritesToggle

SpecFavorites == InitDispatch /\ [][NextFavorites]_vars

(***************************************************************************)
(* A session at the settings panel: keys and urls are typed, saved,        *)
(* tested, cleared and reset.                                              *)
(***************************************************************************)
SettingsKeys == {"", "sk-1", "sk-2"}
SettingsUrls == {"", DefaultBaseUrl, "https://api.other/v1"}

NextSettings ==
    \/ \E k \in SettingsKeys, url \in SettingsUrls, ok \in BOOLEAN :
          SaveSettings(k, url, ok)
    \/ \E k \in SettingsKeys, url \in SettingsUrls, is_valid \in BOOLEAN, ok \in BOOLEAN :
          TestConnection(k, url, is_valid, ok)
    \/ \E ok \in BOOLEAN : ClearSettings(ok)
    \/ \E ok \in BOOLEAN : ResetAllSettings(ok)

SpecSettings == Init /\ [][NextSettings]_vars

(***************************************************************************)
(* Vocabulary of the properties below.                                     *)
(***************************************************************************)
\* the status codes and phrases of the errors that must not be retried
NonRetryableKeywords == {"401", "403", "404", "400", "content policy"}

\* the substrings generate_images_with_retry retries on, in either spelling
RetriedKeywords == {"500", "502", "503", "429", "timeout", "Timeout"}

\* the keywords of a network failure other than "timeout"
NetworkKeywords == {"connection", "dns", "ssl"}

\* the latest call of the run has failed
LastCallFailed == answers # <<>> /\ answers[Len(answers)] = "error"

\* the timestamps of the items of a history
Timestamps(history) == {history[k].timestamp : k \in 1..Len(history)}

\* the ids of the favourites
FavoriteIds(favorites) == {favorites[k].id : k \in 1..Len(favorites)}

\* new is old with exactly one item, not in old, put in front, cut to 50 items
OnePrepended(old, new) ==
    /\ Len(new) = IF Len(old) < 50 THEN Len(old) + 1 ELSE 50
    /\ new[1].timestamp \notin Timestamps(old)
    /\ \A k \in 2..Len(new) : new[k] = old[k - 1]

\* model has a test result that says it is not available
MarkedUnavailable(results, model) == model \in DOMAIN results /\ ~results[model]

\* the run is in the state reached right after its first call failed with msg
FirstAttemptFailed == attempt = 0 /\ answers = <<"error">>

\* a prompt that is empty or whitespace only
Blank(p) == \A i \in 1..Len(p) : p[i].ch = " "

\* the retry loop is running or has returned
Dispatching == pc \in {"generate", "sleep", "returned"}

(***************************************************************************)
(* C1: a single dispatch invokes client.images.generate at most 3 times,   *)
(* whatever the calls answer.                                              *)
(***************************************************************************)
C1_AtMostThreeCalls == Len(calls) <= 3 /\ Len(answers) <= 3

C1_ThreeCallsMade == pc = "returned" /\ Len(calls) = 3 /\ Len(answers) = 3

C3_NoRetryAfter401 == pc = "sleep" => ~Contains(error_msg, "401")

(***************************************************************************)
(* C4: when every attempt fails with a message containing "500", the       *)
(* dispatch returns failure after exactly 3 calls, and the delay before    *)
(* the third call is longer than the delay before the second, the jitter   *)
(* left aside.                                                             *)
(***************************************************************************)
C4_ProviderFaultExhaustsRetries ==
    pc = "returned"
    => /\ ~ret.success
       /\ Len(calls) = 3
       /\ answers = <<"error", "error", "error">>
       /\ Len(sleeps) = 2
       /\ sleeps[2].base > sleeps[1].base
       /\ Ticks(sleeps[2]) > Ticks(sleeps[1])

C4_ThreeProviderFaults ==
    /\ pc = "returned"
    /\ Len(calls) = 3
    /\ Contains(error_msg, "500")
    /\ sleeps[1].jitter = JitterSteps
    /\ sleeps[2].jitter = 0

(***************************************************************************)
(* C5: when attempt 1 fails with a provider fault and attempt 2 succeeds,  *)
(* the dispatch returns success after 2 calls; a call that succeeded is    *)
(* always the last call of its dispatch.                                   *)
(***************************************************************************)
C5_SuccessEndsDispatch ==
    /\ (answers = <<"error", "ok">> /\ Contains(error_msg, "500"))
       => /\ pc = "returned"
          /\ ret.success
          /\ Len(calls) = 2
          /\ Len(sleeps) = 1
    /\ \A i \in 1..Len(answers) :
          answers[i] = "ok" => /\ i = Len(calls)
                               /\ pc = "returned"
                               /\ ret.success

C5_SucceededOnSecondAttempt ==
    /\ pc = "returned"
    /\ ret.success
    /\ answers = <<"error", "ok">>
    /\ Contains(error_msg, "500")

C7_NeverRaises ==
    /\ pc # "raised"
    /\ (answers # <<>> /\ answers[Len(answers)] = "error")
       => \/ pc \in {"sleep", "generate"}
          \/ pc = "returned" /\ ~ret.success /\ ret.error = error_msg

C7_TimeoutErrorCaught ==
    /\ pc = "returned"
    /\ ~ret.success
    /\ answers = <<"error", "error", "error">>
    /\ ret.error = {"Timeout"}

(***************************************************************************)
(* C8: a request whose prompt is empty or whitespace only is rejected      *)
(* before any attempt: no call is made, and the run ends without a change  *)
(* to the history or to the model test results.                            *)
(***************************************************************************)
C8_BlankPromptRejected ==
    /\ [](pc # "idle" /\ Blank(prompt) => calls = <<>> /\ pc = "skipped")
    /\ [][pc = "skipped" => /\ generation_history' = generation_history
                            /\ model_test_results' = model_test_results]_vars

C8_WhitespacePromptSkipped ==
    /\ pc = "skipped"
    /\ api_configured
    /\ prompt = <<[ch |-> " ", n |-> 1]>>
    /\ calls = <<>>

(***************************************************************************)
(* C9: a request whose prompt is longer than 4000 characters, or whose     *)
(* count is outside [1, 4], fails at once: no call is made for it.         *)
(***************************************************************************)
C9_InvalidRequestNotDispatched ==
    (pc # "idle" /\ (StrLen(prompt) > 4000 \/ (params # NoParams /\ params.n \notin 1..4)))
    => calls = <<>> /\ ~Dispatching

(***************************************************************************)
(* C10: when no client could be initialised (no key is configured, or the  *)
(* constructor raised), no generation call is issued: the run ends without *)
(* entering the retry loop.                                                *)
(***************************************************************************)
C10_NoCallWithoutClient ==
    (~api_configured \/ (api_config.api_key = "" /\ ~secrets_key))
    => calls = <<>> /\ ~Dispatching

C10_ConstructorFailedSkipped ==
    /\ pc = "skipped"
    /\ ~api_configured
    /\ api_config.api_key # ""
    /\ calls = <<>>

(***************************************************************************)
(* C11: after a failure whose message contains no keyword at all, while    *)
(* attempts remain, the dispatcher waits and retries: it has not returned. *)
(***************************************************************************)
C11_UnknownErrorRetried ==
    (LastCallFailed /\ error_msg = {} /\ Len(answers) < max_retries)
    => pc \in {"sleep", "generate"}

(***************************************************************************)
(* C12: after a failure whose message contains "connection", "dns" or      *)
(* "ssl" and no other keyword, while attempts remain, the dispatcher       *)
(* retries: it has not returned.                                           *)
(***************************************************************************)
C12_NetworkErrorRetried ==
    (/\ LastCallFailed
     /\ error_msg # {}
     /\ error_msg \subseteq NetworkKeywords
     /\ Len(answers) < max_retries)
    => pc \in {"sleep", "generate"}

(***************************************************************************)
(* C13: the wait that follows a rate-limited failure (a message with "429" *)
(* and no keyword of the provider-fault or authentication rule) is         *)
(* base_delay * 4^attempt plus a jitter of 5 to 10 seconds, and is longer  *)
(* than every wait that follows a provider fault at the same attempt.      *)
(***************************************************************************)
C13_RateLimitWaitsLonger ==
    (/\ pc = "sleep"
     /\ Contains(error_msg, "429")
     /\ ~Contains(error_msg, "500")
     /\ error_msg \cap NonRetryableKeywords = {})
    => LET delay == sleeps[Len(sleeps)]
       IN  /\ delay.base = base_delay * (4 ^ attempt)
           /\ delay.jitter \in (5 * JitterSteps)..(10 * JitterSteps)
           /\ \A jitter \in 0..JitterSteps : Ticks(delay) > Ticks(Delay(attempt, jitter))

(***************************************************************************)
(* C14: the attempts of a dispatch are sequential.  A call is issued only  *)
(* when every earlier call has been answered and, after the first, only    *)
(* when the wait computed after the previous failure has elapsed; exactly  *)
(* one wait lies between two consecutive calls, each wait is started by a  *)
(* failed call, and no wait follows the last call.                         *)
(***************************************************************************)
C14_AttemptsSequential ==
    /\ [](/\ pc = "generate" => /\ Len(answers) = Len(calls) - 1
                                /\ Len(sleeps) = Len(calls) - 1
          /\ pc = "sleep" => /\ Len(answers) = Len(calls)
                             /\ Len(sleeps) = Len(calls)
                             /\ Len(calls) < 3
          /\ pc = "returned" => /\ Len(answers) = Len(calls)
                                /\ Len(sleeps) = Len(calls) - 1)
    /\ [][/\ Len(calls') > Len(calls) => /\ pc \in {"idle", "sleep"}
                                         /\ Len(calls') = Len(calls) + 1
          /\ Len(sleeps') > Len(sleeps) => /\ pc = "generate" /\ pc' = "sleep"
                                           /\ Len(sleeps') = Len(sleeps) + 1]_vars

C14_TwoWaitsThreeAttempts ==
    /\ pc = "returned"
    /\ ~ret.success
    /\ Len(calls) = 3
    /\ Len(sleeps) = 2

(***************************************************************************)
(* C15: the session log (generation_history) never holds more than 50      *)
(* entries; an insertion puts the new entry in front and keeps the others  *)
(* in their order, and when the log is full the one entry it drops is the  *)
(* oldest, the entry inserted before all the others.                       *)
(***************************************************************************)
C15_LogBoundedOldestEvicted ==
    /\ [](Len(generation_history) <= 50)
    /\ [][now' = now + 1 =>
            /\ OnePrepended(generation_history, generation_history')
            /\ \A t \in Timestamps(generation_history) :
                  generation_history'[1].timestamp > t
            /\ Len(generation_history) = 50 =>
                  /\ \A k \in 1..50 : generation_history[50].timestamp
                                          <= generation_history[k].timestamp
                  /\ Timestamps(generation_history') =
                        (Timestamps(generation_history)
                            \ {generation_history[50].timestamp})
                        \cup {generation_history'[1].timestamp}]_vars

C15_LogOverflowedTwice ==
    /\ Len(generation_history) = 50
    /\ generation_history[1].timestamp = 51
    /\ generation_history[50].timestamp = 2

(***************************************************************************)
(* C16: the request handed to the dispatcher is not changed while the      *)
(* dispatch runs, and every call of the dispatch, the retries after a      *)
(* provider fault, a rate limit or a timeout included, carries exactly the *)
(* model, prompt, count and size of the first one.                         *)
(***************************************************************************)
C16_SameRequestOnEveryAttempt ==
    /\ [](\A i \in 1..Len(calls) : calls[i] = calls[1] /\ calls[i] = params)
    /\ [][(pc = "generate" \/ pc = "sleep") => params' = params]_vars

C16_ThirdCallAfterRateLimit ==
    /\ pc = "generate"
    /\ Len(calls) = 3
    /\ calls[3] = calls[1]
    /\ calls[1].n = SliderMax
    /\ calls[1].size # DefaultSize
    /\ Contains(error_msg, "429")

(***************************************************************************)
(* C17: the run of a dispatch that returned failure ends with              *)
(* generation_history and favorite_images unchanged; the run of a dispatch *)
(* that returned success puts exactly one new entry in front of            *)
(* generation_history; and generation_history changes in no other step.    *)
(***************************************************************************)
C17_HistoryGrowsOnlyOnSuccess ==
    [][/\ (pc = "returned" /\ ~ret.success) =>
             /\ generation_history' = generation_history
             /\ favorite_images' = favorite_images
       /\ (pc = "returned" /\ ret.success) =>
             /\ OnePrepended(generation_history, generation_history')
             /\ generation_history'[1].model = params.model
             /\ generation_history'[1].images = params.n
       /\ generation_history' # generation_history =>
             pc = "returned" /\ ret.success]_vars

C17_FailureWithFavorites ==
    /\ pc = "returned"
    /\ ~ret.success
    /\ generation_history # <<>>
    /\ favorite_images # <<>>

(***************************************************************************)
(* C18: the run of a dispatch that failed for a model with a test result   *)
(* ends with that model marked unavailable; no generation call is issued   *)
(* for a model that is marked unavailable; and the mark goes away only     *)
(* between runs, by a model test that reports the model available or by    *)
(* clearing the test results.                                              *)
(***************************************************************************)
C18_FailedModelNotCalledAgain ==
    /\ [](\A i \in 1..Len(calls) : ~MarkedUnavailable(model_test_results, calls[i].model))
    /\ [][/\ (pc = "returned" /\ ~ret.success
               /\ params.model \in DOMAIN model_test_results)
             => MarkedUnavailable(model_test_results', params.model)
          /\ Len(calls') > Len(calls)
             => ~MarkedUnavailable(model_test_results, calls'[Len(calls')].model)
          /\ \A m \in FLUX_MODELS :
                (/\ MarkedUnavailable(model_test_results, m)
                 /\ ~MarkedUnavailable(model_test_results', m))
                => /\ pc = "idle" /\ pc' = "idle"
                   /\ calls' = <<>>
                   /\ \/ m \notin DOMAIN model_test_results'
                      \/ model_test_results'[m]]_vars

C18_TestedModelFailed ==
    /\ pc = "returned"
    /\ ~ret.success
    /\ params.model \in DOMAIN model_test_results
    /\ model_test_results[params.model]
    /\ Len(calls) = 3

(***************************************************************************)
(* C19: the image ids of two different generations are never equal: a      *)
(* favourite that has the id of an image on the page is that image, an     *)
(* image of the generation on the page.                                    *)
(***************************************************************************)
C19_ImageIdsUnique ==
    \A i \in ShownImages : \A k \in 1..Len(favorite_images) :
        favorite_images[k].id = image_id(generation_history, i)
        => favorite_images[k].history_item = generation_history[1]

C21_ValidatedMeansStoredPairTested ==
    /\ [](api_config.validated => /\ last_test.is_valid
                                  /\ last_test.api_key = api_config.api_key
                                  /\ last_test.base_url = api_config.base_url)
    /\ [][(\/ api_config'.api_key # api_config.api_key
           \/ api_config'.base_url # api_config.base_url)
          => ~api_config'.validated]_vars

====
